---- MODULE Spec2Model ----
(***************************************************************************)
(* State machine of the interior-design visualiser: the App component      *)
(* (upload, generation, chat/refine), the ChatInterface input box and the  *)
(* ComparisonSlider drag widget, together with the service calls that are  *)
(* in flight.  One step is one run-to-completion turn of the browser's     *)
(* event loop: a DOM event handler, a FileReader loadend callback, or the  *)
(* continuation of an async handler after its awaited call settles.        *)
(* Message ids and timestamps (Date.now()) and groundingUrls are carried   *)
(* by no decision of the code and are left out; the history variable req   *)
(* of a message names the handler invocation that produced it.             *)
(***************************************************************************)
EXTENDS Integers, Sequences, FiniteSets

VARIABLES
    comparisonState,  \* App: {originalImage, generatedImage, isGenerating}
    messages,         \* App: Message[]
    isTyping,         \* App
    selectedStyle,    \* App
    input,            \* ChatInterface: text of the textarea
    sliderPosition,   \* ComparisonSlider: percentage
    isDragging,       \* ComparisonSlider
    calls,            \* service calls in flight (pending promises)
    reads,            \* FileReader reads in flight
    nextId,           \* number of the next asynchronous operation
    alerts,           \* number of alert() dialogs shown
    uploaded,         \* history: reader.result of the read that ended last
    lastEvent         \* history: the turn that ran last

vars == <<comparisonState, messages, isTyping, selectedStyle, input,
          sliderPosition, isDragging, calls, reads, nextId, alerts, uploaded,
          lastEvent>>

appVars == <<comparisonState, messages, isTyping, selectedStyle>>
sliderVars == <<sliderPosition, isDragging>>

\* ---------------------------------------------------------------- bounds

\* Asynchronous operations (uploads and handler invocations) started in a run.
MaxOps == 3

\* ------------------------------------------------------------ value sets

User == "user"
Bot == "bot"

\* Files the user can pick; the value is the data URL readAsDataURL yields.
Files == {"imageA", "imageB"}

NULL == "null"

\* Images the service can return (already wrapped as data:image/png URLs).
GeneratedImages == {"gen1", "gen2"}

\* DesignStyle values offered as buttons (a subset of the enum).
Modern == "Modern"
DesignStyle == {Modern, "Scandinavian"}

\* Texts the user can have in the textarea: sequences of characters.
Texts == {<<>>, <<" ">>, <<" ", "a", " ">>}

\* response.text values of the chat model ("" is an empty reply).
Replies == {"", "r1"}

\* Geometry of the slider container and the pointer positions tried.
RectLeft == 1
RectWidth == 2
ClientXs == 0..(RectLeft + RectWidth + 1)

InitialSliderPosition == 50

\* ------------------------------------------------------- pure functions

Max2(a, b) == IF a >= b THEN a ELSE b
Min2(a, b) == IF a <= b THEN a ELSE b

\* String.prototype.trim on a sequence of characters.
RECURSIVE TrimLeft(_)
TrimLeft(s) ==
    IF s = <<>> THEN <<>>
    ELSE IF Head(s) = " " THEN TrimLeft(Tail(s)) ELSE s

RECURSIVE TrimRight(_)
TrimRight(s) ==
    IF s = <<>> THEN <<>>
    ELSE IF s[Len(s)] = " " THEN TrimRight(SubSeq(s, 1, Len(s) - 1)) ELSE s

Trim(s) == TrimRight(TrimLeft(s))

\* handleMove: pointer x to a percentage of the container width (the quotient
\* is exact for the widths used here).
Percentage(clientX) ==
    LET x == Max2(0, Min2(clientX - RectLeft, RectWidth))
    IN (x * 100) \div RectWidth

\* comparisonState.generatedImage || comparisonState.originalImage
ActiveImageOriginalOnly(cs) == cs.originalImage

ActiveImage(cs) ==
    IF cs.generatedImage # NULL THEN cs.generatedImage ELSE cs.originalImage

\* if (!comparisonState.originalImage) return;
CanGenerateAlways(cs) == TRUE

CanGenerate(cs) == cs.originalImage # NULL

\* The state set by reader.onloadend.
UploadedStateKeepsGenerated(result) ==
    [comparisonState EXCEPT !.originalImage = result]

UploadedState(result) ==
    [originalImage |-> result, generatedImage |-> NULL, isGenerating |-> FALSE]

\* setComparisonState after generateRoomDesign resolved in handleInitialGeneration.
GeneratedState(cs, newImage) ==
    [cs EXCEPT !.generatedImage = newImage, !.isGenerating = FALSE]

\* setComparisonState in the catch block of handleInitialGeneration.
GenerationFailedStateClears(cs) ==
    [cs EXCEPT !.generatedImage = NULL, !.isGenerating = FALSE]

GenerationFailedState(cs) == [cs EXCEPT !.isGenerating = FALSE]

\* setComparisonState after generateRoomDesign resolved in refine mode.
RefinedStateMovesBefore(cs, refinedImage) ==
    [cs EXCEPT !.originalImage = ActiveImage(cs), !.generatedImage = refinedImage]

RefinedState(cs, refinedImage) == [cs EXCEPT !.generatedImage = refinedImage]

\* Messages built by the handlers.
UserMsg(text, id) == [sender |-> User, text |-> <<"said", text>>, req |-> id]

InitialMsg(style, id) ==
    [sender |-> Bot, text |-> <<"Here is your space reimagined in", style>>, req |-> id]

RefinedMsg(text, id) ==
    [sender |-> Bot, text |-> <<"I've updated the design based on your request", text>>,
     req |-> id]

\* response.text || "I couldn't generate a text response."
ReplyText(reply) ==
    IF reply = "" THEN <<"I couldn't generate a text response.">> ELSE <<"reply", reply>>

ReplyMsg(reply, id) == [sender |-> Bot, text |-> ReplyText(reply), req |-> id]

ErrorMsg(id) ==
    [sender |-> Bot, text |-> <<"I encountered an error processing your request.">>,
     req |-> id]

\* setMessages([initialMsg]) after a successful generation.
MessagesAfterGenerationAppends(style, id) == Append(messages, InitialMsg(style, id))

MessagesAfterGeneration(style, id) == <<InitialMsg(style, id)>>

\* if (isDragging) handleMove(...) in the window mousemove/touchmove listeners,
\* which are registered only while isDragging.
MoveAppliesAlways == TRUE

MoveApplies == isDragging

\* ------------------------------------------------------------ rendering

\* {comparisonState.originalImage && <ChatInterface .../>}
ChatRendered == comparisonState.originalImage # NULL

\* The style buttons: original present, nothing generated yet.
StyleButtonsRendered ==
    comparisonState.originalImage # NULL /\ comparisonState.generatedImage = NULL

\* The ComparisonSlider and the Regenerate button.
SliderRendered ==
    comparisonState.originalImage # NULL /\ comparisonState.generatedImage # NULL

\* disabled={!input.trim() || isTyping} of the Refine Look and Ask buttons.
SendButtonsEnabled == Trim(input) # <<>> /\ ~isTyping

\* History of the last turn: the operation, the asynchronous operation it
\* belongs to (for pointer events: clientX; 0: none) and the value it received
\* (reader.result, the returned image, response.text; NULL: none).
Event(op, id, arg) == [op |-> op, id |-> id, arg |-> arg]

\* ----------------------------------------------------------------- Init

Init ==
    /\ comparisonState =
         [originalImage |-> NULL, generatedImage |-> NULL, isGenerating |-> FALSE]
    /\ messages = <<>>
    /\ isTyping = FALSE
    /\ selectedStyle = NULL
    /\ input = <<>>
    /\ sliderPosition = InitialSliderPosition
    /\ isDragging = FALSE
    /\ calls = {}
    /\ reads = {}
    /\ nextId = 1
    /\ alerts = 0
    /\ uploaded = NULL
    /\ lastEvent = Event("init", 0, NULL)

\* ------------------------------------------------------------- handlers

NewCall(id, handler, image, style, text, history) ==
    [id |-> id,
     fn |-> IF handler = "chat" THEN "chatWithDesigner" ELSE "generateRoomDesign",
     handler |-> handler, image |-> image, style |-> style, text |-> text,
     history |-> history]

\* App.handleFileUpload: a change event of the file input carrying `file`
\* (NULL: no file selected).  With a file, a FileReader read is started.
HandleFileUpload(file) ==
    IF file = NULL
    THEN /\ lastEvent' = Event("handleFileUpload", 0, NULL)
         /\ UNCHANGED <<appVars, input, sliderVars, calls, reads, nextId, alerts, uploaded>>
    ELSE /\ nextId <= MaxOps
         /\ reads' = reads \cup {[id |-> nextId, file |-> file]}
         /\ nextId' = nextId + 1
         /\ lastEvent' = Event("handleFileUpload", nextId, NULL)
         /\ UNCHANGED <<appVars, input, sliderVars, calls, alerts, uploaded>>

\* reader.onloadend: fires when the read ends, with reader.result the data URL
\* of the file, or null when the read failed.  The new comparisonState has no
\* generated image, so the ComparisonSlider is unmounted and loses its state;
\* with no original image the ChatInterface is unmounted as well.
ReaderLoadEnd(r, result) ==
    /\ r \in reads
    /\ result \in {r.file, NULL}
    /\ reads' = reads \ {r}
    /\ comparisonState' = UploadedState(result)
    /\ messages' = <<>>
    /\ sliderPosition' = InitialSliderPosition
    /\ isDragging' = FALSE
    /\ input' = IF result = NULL THEN <<>> ELSE input
    /\ uploaded' = result
    /\ lastEvent' = Event("onloadend", r.id, result)
    /\ UNCHANGED <<isTyping, selectedStyle, calls, nextId, alerts>>

\* App.handleInitialGeneration up to its await.
HandleInitialGeneration(style) ==
    IF ~CanGenerate(comparisonState)
    THEN /\ lastEvent' = Event("handleInitialGeneration", 0, NULL)
         /\ UNCHANGED <<appVars, calls, reads, nextId, alerts, uploaded>>
    ELSE /\ nextId <= MaxOps
         /\ selectedStyle' = style
         /\ comparisonState' = [comparisonState EXCEPT !.isGenerating = TRUE]
         /\ calls' = calls \cup
              {NewCall(nextId, "initial", comparisonState.originalImage, style, <<>>, <<>>)}
         /\ nextId' = nextId + 1
         /\ lastEvent' = Event("handleInitialGeneration", nextId, NULL)
         /\ UNCHANGED <<messages, isTyping, reads, alerts, uploaded>>

\* handleInitialGeneration after generateRoomDesign resolved with newImage.
GenerationResolved(c, newImage) ==
    /\ c \in calls
    /\ c.handler = "initial"
    /\ calls' = calls \ {c}
    /\ comparisonState' = GeneratedState(comparisonState, newImage)
    /\ messages' = MessagesAfterGeneration(c.style, c.id)
    /\ lastEvent' = Event("generationResolved", c.id, newImage)
    /\ UNCHANGED <<isTyping, selectedStyle, input, sliderVars, reads, nextId, alerts, uploaded>>

\* handleInitialGeneration's catch block: generateRoomDesign rejected.
GenerationRejected(c) ==
    /\ c \in calls
    /\ c.handler = "initial"
    /\ calls' = calls \ {c}
    /\ comparisonState' = GenerationFailedState(comparisonState)
    /\ alerts' = alerts + 1
    /\ lastEvent' = Event("generationRejected", c.id, NULL)
    /\ UNCHANGED <<messages, isTyping, selectedStyle, input, sliderVars, reads, nextId, uploaded>>

\* App.handleChatOrRefine up to its await; in refine mode with no image the
\* throw, the catch block and the finally block run in the same turn.
HandleChatOrRefine(text, mode) ==
    LET activeImage == ActiveImage(comparisonState)
        op == IF mode = "refine" THEN "handleChatOrRefine(refine)"
                                 ELSE "handleChatOrRefine(chat)"
    IN /\ nextId <= MaxOps
       /\ nextId' = nextId + 1
       /\ lastEvent' = Event(op, nextId, NULL)
       /\ IF mode = "refine" /\ activeImage = NULL
          THEN /\ messages' = messages \o <<UserMsg(text, nextId), ErrorMsg(nextId)>>
               /\ isTyping' = FALSE
               /\ calls' = calls
          ELSE /\ messages' = Append(messages, UserMsg(text, nextId))
               /\ isTyping' = TRUE
               /\ calls' = calls \cup
                    {NewCall(nextId, mode, activeImage, NULL, text,
                             IF mode = "chat" THEN messages ELSE <<>>)}
       /\ UNCHANGED <<comparisonState, selectedStyle, sliderVars, reads, alerts, uploaded>>

\* handleChatOrRefine after generateRoomDesign resolved in refine mode.
RefineResolved(c, refinedImage) ==
    /\ c \in calls
    /\ c.handler = "refine"
    /\ calls' = calls \ {c}
    /\ comparisonState' = RefinedState(comparisonState, refinedImage)
    /\ messages' = Append(messages, RefinedMsg(c.text, c.id))
    /\ isTyping' = FALSE
    /\ lastEvent' = Event("refineResolved", c.id, refinedImage)
    /\ UNCHANGED <<selectedStyle, input, sliderVars, reads, nextId, alerts, uploaded>>

\* handleChatOrRefine after chatWithDesigner resolved.
ChatResolved(c, reply) ==
    /\ c \in calls
    /\ c.handler = "chat"
    /\ calls' = calls \ {c}
    /\ messages' = Append(messages, ReplyMsg(reply, c.id))
    /\ isTyping' = FALSE
    /\ lastEvent' = Event("chatResolved", c.id, reply)
    /\ UNCHANGED <<comparisonState, selectedStyle, input, sliderVars, reads, nextId, alerts, uploaded>>

\* handleChatOrRefine's catch and finally blocks: the awaited call rejected.
ChatOrRefineRejected(c) ==
    /\ c \in calls
    /\ c.handler \in {"chat", "refine"}
    /\ calls' = calls \ {c}
    /\ messages' = Append(messages, ErrorMsg(c.id))
    /\ isTyping' = FALSE
    /\ lastEvent' = Event("chatOrRefineRejected", c.id, NULL)
    /\ UNCHANGED <<comparisonState, selectedStyle, input, sliderVars, reads, nextId, alerts, uploaded>>

\* ChatInterface.handleSend
HandleSend(mode) ==
    IF Trim(input) = <<>>
    THEN /\ lastEvent' = Event("handleSend", 0, NULL)
         /\ UNCHANGED <<appVars, input, sliderVars, calls, reads, nextId, alerts, uploaded>>
    ELSE /\ HandleChatOrRefine(input, mode)
         /\ input' = <<>>

\* ------------------------------------------------------------ UI events

\* The file input's change event (the upload button is always rendered).
FileInputChange == \E file \in Files \cup {NULL} : HandleFileUpload(file)

FileReadEnds == \E r \in reads : \E result \in {r.file, NULL} : ReaderLoadEnd(r, result)

\* A style button.  While isGenerating the spinner overlay is drawn over the
\* canvas, but the buttons stay rendered, enabled and focusable, so they can
\* still be activated (a focused button takes Enter or Space).
ClickStyle ==
    /\ StyleButtonsRendered
    /\ \E style \in DesignStyle : HandleInitialGeneration(style)
    /\ UNCHANGED <<input, sliderVars>>

\* The Regenerate button:
\* comparisonState.originalImage && handleInitialGeneration(selectedStyle || Modern)
ClickRegenerate ==
    /\ SliderRendered
    /\ comparisonState.originalImage # NULL
    /\ HandleInitialGeneration(IF selectedStyle # NULL THEN selectedStyle ELSE Modern)
    /\ UNCHANGED <<input, sliderVars>>

\* The textarea's onChange.
TypeInput ==
    /\ ChatRendered
    /\ \E t \in Texts : input' = t
    /\ lastEvent' = Event("onChange", 0, NULL)
    /\ UNCHANGED <<appVars, sliderVars, calls, reads, nextId, alerts, uploaded>>

ClickRefineLook == ChatRendered /\ SendButtonsEnabled /\ HandleSend("refine")

ClickAsk == ChatRendered /\ SendButtonsEnabled /\ HandleSend("chat")

\* ChatInterface.handleKeyDown with Enter and no Shift.
PressEnter == ChatRendered /\ HandleSend("chat")

ServiceSettles ==
    \E c \in calls :
        \/ \E newImage \in GeneratedImages : GenerationResolved(c, newImage)
        \/ GenerationRejected(c)
        \/ \E refinedImage \in GeneratedImages : RefineResolved(c, refinedImage)
        \/ \E reply \in Replies : ChatResolved(c, reply)
        \/ ChatOrRefineRejected(c)

\* onMouseDown / onTouchStart of the slider container.
SliderPress ==
    /\ SliderRendered
    /\ \E clientX \in ClientXs :
         /\ sliderPosition' = Percentage(clientX)
         /\ lastEvent' = Event("mousedown", clientX, NULL)
    /\ isDragging' = TRUE
    /\ UNCHANGED <<appVars, input, calls, reads, nextId, alerts, uploaded>>

\* A mousemove / touchmove on the window.
PointerMove ==
    /\ SliderRendered
    /\ \E clientX \in ClientXs :
         /\ sliderPosition' = IF MoveApplies THEN Percentage(clientX) ELSE sliderPosition
         /\ lastEvent' = Event("mousemove", clientX, NULL)
    /\ UNCHANGED <<appVars, input, isDragging, calls, reads, nextId, alerts, uploaded>>

\* A mouseup / touchend on the window (handleMouseUp is registered while dragging).
PointerRelease ==
    /\ SliderRendered
    /\ isDragging' = FALSE
    /\ lastEvent' = Event("mouseup", 0, NULL)
    /\ UNCHANGED <<appVars, input, sliderPosition, calls, reads, nextId, alerts, uploaded>>

Next ==
    \/ FileInputChange
    \/ FileReadEnds
    \/ ClickStyle
    \/ ClickRegenerate
    \/ TypeInput
    \/ ClickRefineLook
    \/ ClickAsk
    \/ PressEnter
    \/ ServiceSettles
    \/ SliderPress
    \/ PointerMove
    \/ PointerRelease

Spec == Init /\ [][Next]_vars

\* The App's handlers called directly, in any state (as a test or another
\* caller may), without the conditions under which the UI renders their buttons.
CallInitialGeneration ==
    /\ \E style \in DesignStyle : HandleInitialGeneration(style)
    /\ UNCHANGED <<input, sliderVars>>

CallChatOrRefine ==
    /\ \E text \in Texts, mode \in {"chat", "refine"} : HandleChatOrRefine(text, mode)
    /\ UNCHANGED input

NextDirect ==
    \/ FileInputChange
    \/ FileReadEnds
    \/ CallInitialGeneration
    \/ CallChatOrRefine
    \/ ServiceSettles

SpecDirect == Init /\ [][NextDirect]_vars

\* --------------------------------------------------------------- claims

Op == lastEvent'.op

\* The call a settling turn consumed, and the call an issuing turn added.
Settled == calls \ calls'
Issued == calls' \ calls

\* C1: in every reachable state at most one call to generateRoomDesign or
\* chatWithDesigner is in flight.
C1_AtMostOneCallInFlight == Cardinality(calls) <= 1

\* C2: handleInitialGeneration invoked while originalImage is null issues no
\* service call and leaves comparisonState, selectedStyle and messages
\* unchanged; every call it issues is a generateRoomDesign call that carries the
\* originalImage of the moment, which is the image uploaded last.
C2_GenerationNeedsPhoto ==
    [][Op = "handleInitialGeneration" =>
         IF comparisonState.originalImage = NULL
         THEN /\ calls' = calls
              /\ comparisonState' = comparisonState
              /\ selectedStyle' = selectedStyle
              /\ messages' = messages
         ELSE /\ Cardinality(Issued) = 1
              /\ \A c \in Issued :
                   /\ c.fn = "generateRoomDesign"
                   /\ c.image = comparisonState.originalImage
                   /\ c.image = uploaded
                   /\ c.image \in Files]_vars

\* handleInitialGeneration was invoked with no photo and returned at once.
C2_Witness ==
    /\ lastEvent = Event("handleInitialGeneration", 0, NULL)
    /\ comparisonState.originalImage = NULL
    /\ calls = {}

C4_DragUpdatesSlider ==
    [][/\ Op = "mousedown" =>
            isDragging' /\ sliderPosition' = Percentage(lastEvent'.id)
       /\ (Op = "mousemove" /\ ~isDragging) => sliderPosition' = sliderPosition
       /\ (Op = "mousemove" /\ isDragging) =>
            sliderPosition' = Percentage(lastEvent'.id)
       /\ Op = "mousemove" => isDragging' = isDragging
       /\ Op = "mouseup" => ~isDragging' /\ sliderPosition' = sliderPosition
       /\ (isDragging' /\ ~isDragging) => Op = "mousedown"]_vars

\* A move during a drag took the handle to the right edge.
C4_Witness ==
    /\ lastEvent = Event("mousemove", RectLeft + RectWidth, NULL)
    /\ isDragging
    /\ sliderPosition = 100

\* C5: when the file read of handleFileUpload ends, comparisonState becomes
\* {originalImage: reader.result, generatedImage: null, isGenerating: false}
\* and messages becomes empty, whatever the state was; reader.result is the
\* image of the file read (null only if the read failed).  An upload event
\* with no file selected changes nothing.
C5_UploadResetsSession ==
    [][/\ Op = "onloadend" =>
            /\ \E r \in reads \ reads' :
                 /\ r.id = lastEvent'.id
                 /\ lastEvent'.arg \in {r.file, NULL}
            /\ comparisonState' =
                 [originalImage |-> lastEvent'.arg, generatedImage |-> NULL,
                  isGenerating |-> FALSE]
            /\ messages' = <<>>
       /\ lastEvent' = Event("handleFileUpload", 0, NULL) =>
            UNCHANGED <<appVars, input, sliderVars, calls, reads, nextId, alerts, uploaded>>]_vars

\* A second photo was read while a generation of the first was in flight and
\* after a style had been chosen: the session is reset to the new photo.
C5_Witness ==
    /\ lastEvent.op = "onloadend"
    /\ lastEvent.arg \in Files
    /\ lastEvent.id >= 2
    /\ selectedStyle # NULL
    /\ comparisonState =
         [originalImage |-> lastEvent.arg, generatedImage |-> NULL, isGenerating |-> FALSE]
    /\ messages = <<>>

\* C6: after every turn originalImage is the result of the read that ended
\* last, and only the end of a read changes originalImage.
C6_BeforeImageIsUpload ==
    [][/\ comparisonState'.originalImage = uploaded'
       /\ comparisonState'.originalImage # comparisonState.originalImage =>
            Op = "onloadend"]_vars

\* After a generation was started and a refinement succeeded, 'Before' is
\* still the upload.
C6_Witness ==
    /\ lastEvent.op = "refineResolved"
    /\ selectedStyle # NULL
    /\ comparisonState.originalImage \in Files
    /\ comparisonState.generatedImage = lastEvent.arg

\* A bot message that answers a handleChatOrRefine call.
IsAnswer(m) ==
    m.sender = Bot /\ m.text[1] # "Here is your space reimagined in"

\* C7: every bot message of a handleChatOrRefine call stands in messages after
\* the user message of the same call.
C7_UserMessagePrecedesBotMessage ==
    \A i \in DOMAIN messages :
        IsAnswer(messages[i]) =>
            \E j \in 1..(i - 1) :
                messages[j].sender = User /\ messages[j].req = messages[i].req

\* C8: when handleInitialGeneration succeeds, generatedImage becomes the
\* returned image, isGenerating becomes false, and messages becomes the list
\* of the one bot message that announces the style of that call.
C8_GenerationSuccessReplacesChat ==
    [][Op = "generationResolved" =>
         /\ lastEvent'.arg \in GeneratedImages
         /\ comparisonState'.generatedImage = lastEvent'.arg
         /\ comparisonState'.isGenerating = FALSE
         /\ \E c \in Settled :
              /\ c.id = lastEvent'.id
              /\ messages' = <<[sender |-> Bot,
                                text |-> <<"Here is your space reimagined in", c.style>>,
                                req |-> c.id]>>]_vars

\* A generation succeeded while a chat request sent after it was still in
\* flight: the user message of that request is no longer in the list.
C8_Witness ==
    /\ lastEvent.op = "generationResolved"
    /\ isTyping
    /\ Len(messages) = 1
    /\ messages[1].sender = Bot
    /\ comparisonState.generatedImage = lastEvent.arg

\* C9: handleChatOrRefine in refine mode sends generatedImage to
\* generateRoomDesign when it is non-null and originalImage otherwise; on
\* success generatedImage becomes the result; with both images null it issues
\* no call, leaves comparisonState unchanged and appends the user message and
\* the bot error message.
C9_RefineEditsActiveImage ==
    [][/\ Op = "handleChatOrRefine(refine)" =>
            IF comparisonState.generatedImage = NULL
               /\ comparisonState.originalImage = NULL
            THEN /\ calls' = calls
                 /\ comparisonState' = comparisonState
                 /\ Len(messages') = Len(messages) + 2
                 /\ SubSeq(messages', 1, Len(messages)) = messages
                 /\ messages'[Len(messages) + 1].sender = User
                 /\ messages'[Len(messages) + 2] = ErrorMsg(lastEvent'.id)
            ELSE /\ comparisonState' = comparisonState
                 /\ Cardinality(Issued) = 1
                 /\ \A c \in Issued :
                      /\ c.fn = "generateRoomDesign"
                      /\ c.image # NULL
                      /\ comparisonState.generatedImage # NULL =>
                           c.image = comparisonState.generatedImage
                      /\ comparisonState.generatedImage = NULL =>
                           c.image = comparisonState.originalImage
       /\ Op = "refineResolved" =>
            /\ comparisonState'.generatedImage = lastEvent'.arg
            /\ lastEvent'.arg \in GeneratedImages
            /\ comparisonState'.originalImage = comparisonState.originalImage]_vars

\* A refine request was made with no image at all: only the error was appended.
C9_Witness ==
    /\ lastEvent.op = "handleChatOrRefine(refine)"
    /\ comparisonState.originalImage = NULL
    /\ comparisonState.generatedImage = NULL
    /\ calls = {}
    /\ Len(messages) = 2
    /\ messages[2] = ErrorMsg(lastEvent.id)

====
